---- MODULE Spec2Model ----
(***************************************************************************)
(* Model of the EDA helpers of churn_customers_telecom:                    *)
(*   data_prepare.py    snake_columns_rename                               *)
(*   vizualization.py   PlotCfg, category_graph, category_graph_compare    *)
(* A string is a sequence of one-character strings.  Three specifications  *)
(* share the variables: SpecRename (snake_columns_rename called on a       *)
(* dataset), SpecGraph (category_graph) and SpecCompare                    *)
(* (category_graph_compare).                                               *)
(***************************************************************************)
EXTENDS Integers, Sequences, FiniteSets, TLC

VARIABLES
    orig,       \* rename: the column label the dataset was loaded with
    cols,       \* rename: the column label of the dataset (data.columns, one label)
    prev,       \* rename: the label before the latest call
    calls,      \* rename: number of calls of snake_columns_rename so far
    data,       \* charts: the dataset, a sequence of rows
    columns,    \* charts: the list of categorical column names passed in
    pc,         \* charts: position in the function
    idx,        \* charts: number of columns of the list already processed
    axes,       \* category_graph: the grid of subplots
    values,     \* category_graph: value_counts of the column just drawn
    cohorts,    \* category_graph_compare: churned_data / retained_data
    chart       \* category_graph_compare: the locals and the drawing of the current column

vars == <<orig, cols, prev, calls, data, columns, pc, idx, axes, values, cohorts, chart>>

renameVars == <<orig, cols, prev, calls>>
chartVars  == <<data, columns, pc, idx, axes, values, cohorts, chart>>

----------------------------------------------------------------------------
(* Bounds *)

MaxLen == 4         \* longest column label drawn from Alphabet
MaxCalls == 2       \* calls of snake_columns_rename on the same dataset
MaxRows == 3        \* most rows of a dataset
MaxCols == 3        \* longest list of columns passed to category_graph

----------------------------------------------------------------------------
(* Characters *)

Lowercase == {"a", "b", "c", "d", "e", "h", "i", "m", "n", "o", "r", "s", "t", "u"}
Uppercase == {"A", "B", "C", "D", "I"}
Digits == {"1"}
Whitespace == {" ", "\t"}

\* str.lower on one character
LowerChar(c) ==
    CASE c = "A" -> "a"
      [] c = "B" -> "b"
      [] c = "C" -> "c"
      [] c = "D" -> "d"
      [] c = "I" -> "i"
      [] OTHER -> c

\* the characters the bounded labels are drawn from
Alphabet == {"a", "b", "A", "B", "1", "_", " ", "\t"}

ExampleName ==
    <<"C","u","s","t","o","m","e","r","I","D"," ","C","h","u","r","n">>

ExampleSnake ==
    <<"c","u","s","t","o","m","e","r","_","i","d","_","c","h","u","r","n">>

BoundedNames == UNION {[1..n -> Alphabet] : n \in 0..MaxLen}

----------------------------------------------------------------------------
(* snake_columns_rename, data_prepare.py:12-18, one step of the chain each *)

\* .str.replace(r"([a-z0-9])([A-Z])", r"\1 \2", regex=True): leftmost
\* non-overlapping matches, scanning resumes after the matched pair
RECURSIVE CamelFrom(_, _)
CamelFrom(s, i) ==
    IF i > Len(s) THEN <<>>
    ELSE IF i < Len(s) /\ s[i] \in (Lowercase \cup Digits) /\ s[i+1] \in Uppercase
         THEN <<s[i], " ", s[i+1]>> \o CamelFrom(s, i + 2)
         ELSE <<s[i]>> \o CamelFrom(s, i + 1)

\* the same replacement limited to the first match
CamelSplitOnce(s) ==
    LET hits == {i \in 1..(Len(s) - 1) :
                    s[i] \in (Lowercase \cup Digits) /\ s[i+1] \in Uppercase}
    IN  IF hits = {} THEN s
        ELSE LET i == CHOOSE h \in hits : \A g \in hits : h <= g
             IN  SubSeq(s, 1, i) \o <<" ">> \o SubSeq(s, i + 1, Len(s))

CamelSplit(s) == CamelFrom(s, 1)

\* .str.replace(" ", "_"): the literal space only
ReplaceSpace(s) == [i \in 1..Len(s) |-> IF s[i] = " " THEN "_" ELSE s[i]]

\* .str.lower()
Lower(s) == [i \in 1..Len(s) |-> LowerChar(s[i])]

RECURSIVE CollapseFrom(_, _)
CollapseFrom(s, i) ==
    IF i > Len(s) THEN <<>>
    ELSE IF s[i] = "_" /\ i > 1 /\ s[i-1] = "_"
         THEN CollapseFrom(s, i + 1)
         ELSE <<s[i]>> \o CollapseFrom(s, i + 1)

\* .str.replace(r"_+", "_", regex=True)
CollapseUnderscores(s) == CollapseFrom(s, 1)

\* .str.strip("_")
StripUnderscores(s) ==
    LET keep == {i \in 1..Len(s) : s[i] # "_"}
    IN  IF keep = {} THEN <<>>
        ELSE SubSeq(s, CHOOSE i \in keep : \A j \in keep : i <= j,
                       CHOOSE i \in keep : \A j \in keep : i >= j)

\* the chain with its first two steps exchanged
SnakeNameSpaceFirst(s) ==
    StripUnderscores(CollapseUnderscores(Lower(CamelSplit(ReplaceSpace(s)))))

\* the chain of data_prepare.py:12-18
SnakeName(s) ==
    StripUnderscores(CollapseUnderscores(Lower(ReplaceSpace(CamelSplit(s)))))

----------------------------------------------------------------------------
(* SpecRename *)

InitCharts ==
    /\ data = <<>>
    /\ columns = <<>>
    /\ pc = "idle"
    /\ idx = 0
    /\ axes = <<>>
    /\ values = <<>>
    /\ cohorts = <<>>
    /\ chart = <<>>

InitRename ==
    /\ cols \in BoundedNames \cup {ExampleName}
    /\ orig = cols
    /\ prev = cols
    /\ calls = 0
    /\ InitCharts

\* snake_columns_rename(data): data.columns is rewritten in place
SnakeColumnsRename ==
    /\ calls < MaxCalls
    /\ cols' = SnakeName(cols)
    /\ prev' = cols
    /\ calls' = calls + 1
    /\ orig' = orig
    /\ UNCHANGED chartVars

NextRename == SnakeColumnsRename

SpecRename == InitRename /\ [][NextRename]_vars

----------------------------------------------------------------------------
(* Dataframe operations used by vizualization.py *)

NaN == "NaN"

\* PlotCfg.percent_decimals, vizualization.py:24
PercentDecimals == 1

\* PlotCfg.churn_value, vizualization.py:22
ChurnValue == 1

RECURSIVE Pow10(_)
Pow10(k) == IF k = 0 THEN 1 ELSE 10 * Pow10(k - 1)

\* num/den rounded to an integer, halves to even (numpy's round)
RoundHalfEven(num, den) ==
    LET q == num \div den
        r == num % den
    IN  IF 2 * r < den THEN q
        ELSE IF 2 * r > den THEN q + 1
        ELSE IF q % 2 = 0 THEN q ELSE q + 1

\* (count / total * 100).round(percent_decimals), in units of the last
\* decimal kept: 333 stands for 33.3
Pct(count, total) == RoundHalfEven(count * 100 * Pow10(PercentDecimals), total)

\* frame[column]: the column as a sequence of cell values
Col(frame, column) == [i \in 1..Len(frame) |-> frame[i][column]]

\* Series.unique(): the distinct cell values, a missing value being one of them
Unique(cv) == {cv[i] : i \in 1..Len(cv)}

CountOf(cv, v) == Cardinality({i \in 1..Len(cv) : cv[i] = v})

\* the orders value_counts may return the values of vs in: by count,
\* largest first, equal counts in either order
CountOrders(cv, vs) ==
    {s \in [1..Cardinality(vs) -> vs] :
        /\ \A i, j \in DOMAIN s : i # j => s[i] # s[j]
        /\ \A i, j \in DOMAIN s : i < j => CountOf(cv, s[i]) >= CountOf(cv, s[j])}

\* value_counts that keeps the missing value as a category (dropna=False)
ValueCountsKeepNaN(cv) ==
    {[i \in DOMAIN s |-> [value |-> s[i], count |-> CountOf(cv, s[i])]] :
        s \in CountOrders(cv, Unique(cv))}

\* value_counts(): one entry per distinct non-missing value with the number
\* of rows holding it; the set of results the library may return
ValueCounts(cv) ==
    {[i \in DOMAIN s |-> [value |-> s[i], count |-> CountOf(cv, s[i])]] :
        s \in CountOrders(cv, Unique(cv) \ {NaN})}

RECURSIVE SumCounts(_)
SumCounts(vc) == IF vc = <<>> THEN 0 ELSE Head(vc).count + SumCounts(Tail(vc))

----------------------------------------------------------------------------
(* category_graph, vizualization.py:26-92 *)

GraphColumns == {"plan", "gender"}

GraphDomain(column) ==
    IF column = "plan" THEN {"A", "B", "C", NaN} ELSE {"M", "F"}

GraphRows == {r \in [GraphColumns -> {"A", "B", "C", NaN, "M", "F"}] :
                 \A c \in GraphColumns : r[c] \in GraphDomain(c)}

\* nrows = (n + 1) // 2
NRows(n) == (n + 1) \div 2

\* plt.subplots(nrows, 2): with one row the array of axes is one-dimensional
\* and a cell is addressed by its column alone; a cell is kept as <<row, col>>
Cells(n) == (0..(NRows(n) - 1)) \X (0..1)

EmptyAx == [kind |-> "empty", shown |-> 0, title |-> "", draws |-> 0, off |-> FALSE]

\* ax = axes[row, col] if nrows > 1 else axes[col]
AxAt(n, i) ==
    LET row == i \div 2
        col == i % 2
    IN  IF NRows(n) > 1 THEN <<row, col>> ELSE <<0, col>>

\* a clean-up that switches the last cell off whatever n is
UnusedAlways(n) == {<<NRows(n) - 1, 1>>}

\* lines 85-89: the cells switched off after the loop: axes[-1, -1], or
\* axes[-1] when the grid has one row, and only for odd n
Unused(n) ==
    IF n % 2 # 0
    THEN IF NRows(n) > 1 THEN {<<NRows(n) - 1, 1>>} ELSE {<<0, 1>>}
    ELSE {}

\* the lists of column names passed in: "plan" and "gender" in turn,
\* starting with either
ColumnLists ==
    {[i \in 1..n |-> IF (i + k) % 2 = 0 THEN "plan" ELSE "gender"] :
        n \in 1..MaxCols, k \in 0..1}

InitRenameIdle ==
    /\ orig = <<>>
    /\ cols = <<>>
    /\ prev = <<>>
    /\ calls = 0

InitGraph ==
    /\ data \in UNION {[1..n -> GraphRows] : n \in 0..MaxRows}
    /\ columns \in ColumnLists
    /\ pc = "start"
    /\ idx = 0
    /\ axes = <<>>
    /\ values = <<>>
    /\ cohorts = <<>>
    /\ chart = <<>>
    /\ InitRenameIdle

\* lines 45-47
Subplots ==
    /\ pc = "start"
    /\ axes' = [c \in Cells(Len(columns)) |-> EmptyAx]
    /\ pc' = "loop"
    /\ UNCHANGED <<data, columns, idx, values, cohorts, chart>>
    /\ UNCHANGED renameVars

\* the locals of one iteration, lines 50-55: the value counts with their
\* percentages of len(data); vc is one result of value_counts
WithPct(vc, total) ==
    [i \in DOMAIN vc |->
        [value |-> vc[i].value, count |-> vc[i].count,
         pct |-> Pct(vc[i].count, total)]]

\* lines 49-64, the branch of line 58 taken: a pie chart of values.values
DrawPie ==
    /\ pc = "loop"
    /\ idx < Len(columns)
    /\ LET column == columns[idx + 1]
           ax == AxAt(Len(columns), idx)
       IN  /\ Cardinality(Unique(Col(data, column))) <= 2
           /\ \E vc \in ValueCounts(Col(data, column)) :
                /\ values' = WithPct(vc, Len(data))
                /\ axes' = [axes EXCEPT ![ax] =
                              [kind |-> "pie", shown |-> Len(vc), title |-> column,
                               draws |-> @.draws + 1, off |-> @.off]]
    /\ idx' = idx + 1
    /\ UNCHANGED <<data, columns, pc, cohorts, chart>>
    /\ UNCHANGED renameVars

\* lines 49-58 and 66-82, the else branch: a bar per entry of values
DrawBar ==
    /\ pc = "loop"
    /\ idx < Len(columns)
    /\ LET column == columns[idx + 1]
           ax == AxAt(Len(columns), idx)
       IN  /\ Cardinality(Unique(Col(data, column))) > 2
           /\ \E vc \in ValueCounts(Col(data, column)) :
                /\ values' = WithPct(vc, Len(data))
                /\ axes' = [axes EXCEPT ![ax] =
                              [kind |-> "bar", shown |-> Len(vc), title |-> column,
                               draws |-> @.draws + 1, off |-> @.off]]
    /\ idx' = idx + 1
    /\ UNCHANGED <<data, columns, pc, cohorts, chart>>
    /\ UNCHANGED renameVars

\* lines 84-92: the unused cell is switched off and the figure shown
ShowGrid ==
    /\ pc = "loop"
    /\ idx = Len(columns)
    /\ axes' = [c \in DOMAIN axes |->
                  IF c \in Unused(Len(columns))
                  THEN [axes[c] EXCEPT !.off = TRUE] ELSE axes[c]]
    /\ pc' = "done"
    /\ UNCHANGED <<data, columns, idx, values, cohorts, chart>>
    /\ UNCHANGED renameVars

NextGraph == Subplots \/ DrawPie \/ DrawBar \/ ShowGrid

SpecGraph == InitGraph /\ [][NextGraph]_vars

----------------------------------------------------------------------------
(* category_graph_compare, vizualization.py:120-181 *)

CompareRows ==
    [target : {0, 1}, plan : {"A", "B", NaN}, gender : {"M", "F"}]

CatColumnLists ==
    {<<"plan">>, <<"gender">>, <<"plan", "gender">>, <<"gender", "plan">>}

InitCompare ==
    /\ data \in UNION {[1..n -> CompareRows] : n \in 0..MaxRows}
    /\ columns \in CatColumnLists
    /\ pc = "start"
    /\ idx = 0
    /\ axes = <<>>
    /\ values = <<>>
    /\ cohorts = <<>>
    /\ chart = <<>>
    /\ InitRenameIdle

IsChurned(row) == row.target = ChurnValue
IsRetained(row) == row.target # ChurnValue

\* lines 136-137: data.query keeps the matching rows, in order
Partition ==
    /\ pc = "start"
    /\ cohorts' = [churned |-> SelectSeq(data, IsChurned),
                   retained |-> SelectSeq(data, IsRetained)]
    /\ pc' = "loop"
    /\ UNCHANGED <<data, columns, idx, axes, values, chart>>
    /\ UNCHANGED renameVars

\* lines 147-148: counts / total * 100, rounded; an empty series of counts
\* divided by a total of 0 is an empty series, nothing is raised
PctSeries(counts, total) ==
    [i \in DOMAIN counts |-> Pct(counts[i].count, total)]

\* a bar call that wants as many heights as x positions
BarShapeStrict(nx, nh) == IF nx = nh THEN nx ELSE -1

\* ax.bar(x, height): x and height are broadcast against each other; the
\* number of bars drawn, or -1 when the shapes do not match and the call
\* raises
BarShape(nx, nh) ==
    IF nx = nh THEN nx
    ELSE IF nx = 1 THEN nh
    ELSE IF nh = 1 THEN nx
    ELSE -1

\* the element of a broadcast operand of length n used for bar i
Pick(n, i) == IF n = 1 THEN 1 ELSE i

\* lines 141-158: the locals of one iteration and the two bar calls, for one
\* result each of the two value_counts calls
Drawing(column, cc, rc) ==
    LET cpct == PctSeries(cc, Len(cohorts.churned))
        rpct == PctSeries(rc, Len(cohorts.retained))
        nx == Len(cpct)
        n2 == BarShape(nx, Len(rpct))
    IN  [column |-> column,
         churned_counts |-> cc,
         retained_counts |-> rc,
         churned_pct |-> cpct,
         retained_pct |-> rpct,
         bars1 |-> [i \in 1..nx |-> [x |-> i - 1, height |-> cpct[i]]],
         bars2 |-> IF n2 < 0 THEN <<>>
                   ELSE [i \in 1..n2 |-> [x |-> Pick(nx, i) - 1,
                                          height |-> rpct[Pick(Len(rpct), i)]]],
         nbars2 |-> n2]

Min(a, b) == IF a <= b THEN a ELSE b

\* lines 163-170: the pairs of bars labelled; label i reads
\* churned_counts.iloc[i] and retained_counts.iloc[i]
NLabels(d) == Min(Len(d.bars1), Len(d.bars2))

LabelsInRange(d) ==
    /\ NLabels(d) <= Len(d.churned_counts)
    /\ NLabels(d) <= Len(d.retained_counts)

Results(column) ==
    {Drawing(column, cc, rc) :
        cc \in ValueCounts(Col(cohorts.churned, column)),
        rc \in ValueCounts(Col(cohorts.retained, column))}

\* lines 139-181 for one column, nothing raised: the chart is shown
CompareColumn ==
    /\ pc = "loop"
    /\ idx < Len(columns)
    /\ \E d \in Results(columns[idx + 1]) :
         /\ d.nbars2 >= 0
         /\ LabelsInRange(d)
         /\ chart' = d @@
                     [outcome |-> "shown",
                      labels |-> [i \in 1..NLabels(d) |->
                                    [churned |-> d.churned_counts[i].count,
                                     retained |-> d.retained_counts[i].count]],
                      ticks |-> [i \in 1..Len(d.churned_pct) |->
                                    d.churned_counts[i].value]]
    /\ idx' = idx + 1
    /\ UNCHANGED <<data, columns, pc, axes, values, cohorts>>
    /\ UNCHANGED renameVars

\* lines 139-158: the second bar call raises (shape mismatch); the function
\* is left with the exception and the column's chart is never shown
BarMismatch ==
    /\ pc = "loop"
    /\ idx < Len(columns)
    /\ \E d \in Results(columns[idx + 1]) :
         /\ d.nbars2 < 0
         /\ chart' = d @@ [outcome |-> "bar", labels |-> <<>>, ticks |-> <<>>]
    /\ pc' = "failed"
    /\ UNCHANGED <<data, columns, idx, axes, values, cohorts>>
    /\ UNCHANGED renameVars

\* lines 139-170: a label reads past the end of retained_counts
\* (IndexError); the column's chart is never shown
LabelOutOfRange ==
    /\ pc = "loop"
    /\ idx < Len(columns)
    /\ \E d \in Results(columns[idx + 1]) :
         /\ d.nbars2 >= 0
         /\ ~LabelsInRange(d)
         /\ chart' = d @@ [outcome |-> "label", labels |-> <<>>, ticks |-> <<>>]
    /\ pc' = "failed"
    /\ UNCHANGED <<data, columns, idx, axes, values, cohorts>>
    /\ UNCHANGED renameVars

\* the loop of line 139 is exhausted: the function returns
Return ==
    /\ pc = "loop"
    /\ idx = Len(columns)
    /\ pc' = "done"
    /\ UNCHANGED <<data, columns, idx, axes, values, cohorts, chart>>
    /\ UNCHANGED renameVars

NextCompare == Partition \/ CompareColumn \/ BarMismatch \/ LabelOutOfRange \/ Return

SpecCompare == InitCompare /\ [][NextCompare]_vars

----------------------------------------------------------------------------
(* Claims about snake_columns_rename, checked under SpecRename *)

Separators == {" ", "_"}

\* s without the characters of drop
Without(s, drop) == SelectSeq(s, LAMBDA c : c \notin drop)

\* the index in s of its k-th character outside drop
NthKept(s, drop, k) ==
    CHOOSE i \in 1..Len(s) :
        /\ s[i] \notin drop
        /\ Cardinality({j \in 1..i : s[j] \notin drop}) = k

\* whether the input calls for a separator after its k-th kept character:
\* a run of spaces/underscores follows it, or a lowercase/digit to
\* uppercase boundary does
WantsGap(s, k) ==
    LET i == NthKept(s, Separators, k)
        j == NthKept(s, Separators, k + 1)
    IN  \/ j > i + 1
        \/ s[i] \in (Lowercase \cup Digits) /\ s[j] \in Uppercase

\* the number of underscores after the k-th kept character of the output
GapAfter(s, k) == NthKept(s, {"_"}, k + 1) - NthKept(s, {"_"}, k) - 1

SnakeShape(in, out) ==
    LET core == Without(in, Separators)
    IN  /\ Without(out, {"_"}) = Lower(core)
        /\ Len(out) > 0 => out[1] # "_" /\ out[Len(out)] # "_"
        /\ \A k \in 1..(Len(core) - 1) :
               GapAfter(out, k) = IF WantsGap(in, k) THEN 1 ELSE 0

\* C1 (as claimed): after a call the label has no uppercase letter, no
\* whitespace character (space or tab), no two consecutive underscores and
\* no underscore at either end.
C1_CleanOutput ==
    calls >= 1 =>
        /\ \A i \in 1..Len(cols) : cols[i] \notin Uppercase \cup Whitespace
        /\ \A i \in 1..(Len(cols) - 1) : ~(cols[i] = "_" /\ cols[i+1] = "_")
        /\ Len(cols) > 0 => cols[1] # "_" /\ cols[Len(cols)] # "_"

\* C2: snake_columns_rename is idempotent: a second call on the renamed
\* dataset leaves the label as the first call made it.
C2_Idempotent == calls >= 2 => cols = prev

C2_Witness ==
    /\ calls = 2
    /\ orig = <<"a", "B", "_", " ">>
    /\ cols = <<"a", "_", "b">>

\* C3: a call puts exactly one underscore at every lowercase/digit to
\* uppercase boundary and for every run of spaces/underscores inside the
\* label, none elsewhere, and otherwise only lowercases: the output without
\* underscores is the lowercased input without spaces and underscores;
\* "CustomerID Churn" becomes "customer_id_churn".
C3_SnakeShape ==
    calls >= 1 =>
        /\ SnakeShape(prev, cols)
        /\ prev = ExampleName => cols = ExampleSnake

C3_Witness ==
    \/ calls = 1 /\ prev = ExampleName /\ cols = ExampleSnake
    \/ calls = 1 /\ prev = <<"a", "B", "b", "A">>
                 /\ cols = <<"a", "_", "b", "b", "_", "a">>

----------------------------------------------------------------------------
(* Claims about category_graph, checked under SpecGraph *)

\* the column drawn by the latest iteration
LastColumn == Col(data, columns[idx])

NonMissing(cv) == Cardinality({i \in 1..Len(cv) : cv[i] # NaN})

\* C6 (as claimed): a pie chart is drawn exactly for a column with at most
\* 2 distinct values and a bar chart exactly for one with 3 or more, so a
\* pie never shows more than 2 categories and a bar never fewer than 3.
C6_PieBarThreshold ==
    pc \in {"loop", "done"} =>
        \A c \in DOMAIN axes :
            /\ axes[c].kind = "pie" => axes[c].shown <= 2
            /\ axes[c].kind = "bar" => axes[c].shown >= 3

\* C8: the per-category counts used for the chart of a column sum to the
\* number of rows whose value in that column is not missing, which is the
\* row count of the dataset when the column has no missing value.
C8_CountsSum ==
    (pc \in {"loop", "done"} /\ idx >= 1) =>
        /\ SumCounts(values) = NonMissing(LastColumn)
        /\ NaN \notin Unique(LastColumn) => SumCounts(values) = Len(data)

C8_Witness ==
    /\ pc = "loop"
    /\ idx = 1
    /\ Len(data) = 3
    /\ NonMissing(LastColumn) = 2
    /\ SumCounts(values) = 2
    /\ Len(values) = 2

\* ceil(n / 2), from its definition
CeilHalf(n) == CHOOSE r \in 0..n : 2 * r >= n /\ 2 * (r - 1) < n

\* C10: for n >= 1 columns the grid is ceil(n/2) rows by 2 columns, the
\* column at index i is drawn, alone, in cell (i div 2, i mod 2), and after
\* the call the hidden cells are exactly the cells nothing was drawn in:
\* the last cell for odd n, none for even n.
C10_Grid ==
    LET n == Len(columns)
    IN  pc \in {"loop", "done"} =>
          /\ DOMAIN axes = (0..(CeilHalf(n) - 1)) \X (0..1)
          /\ \A i \in 0..(idx - 1) :
                /\ axes[<<i \div 2, i % 2>>].kind # "empty"
                /\ axes[<<i \div 2, i % 2>>].title = columns[i + 1]
                /\ axes[<<i \div 2, i % 2>>].draws = 1
          /\ \A c \in DOMAIN axes :
                (\A i \in 0..(idx - 1) : c # <<i \div 2, i % 2>>)
                    => axes[c].kind = "empty" /\ axes[c].draws = 0
          /\ pc = "done" =>
                /\ idx = n
                /\ \A c \in DOMAIN axes : axes[c].off <=> axes[c].kind = "empty"
                /\ {c \in DOMAIN axes : axes[c].off}
                     = IF n % 2 = 1 THEN {<<CeilHalf(n) - 1, 1>>} ELSE {}

C10_Witness ==
    /\ pc = "done"
    /\ Len(columns) = 3
    /\ axes[<<1, 1>>].off
    /\ axes[<<1, 0>>].kind = "bar"

----------------------------------------------------------------------------
(* Claims about category_graph_compare, checked under SpecCompare *)

\* an iteration of the loop has computed its percentages
Computed == pc \in {"loop", "done", "failed"} /\ chart # <<>>

ChurnedCol == Col(cohorts.churned, chart.column)
RetainedCol == Col(cohorts.retained, chart.column)

BothCohorts == Len(cohorts.churned) > 0 /\ Len(cohorts.retained) > 0

\* the percentage the series gives to value v, or -1 when it has no entry
PctFor(counts, pcts, v) ==
    IF \E i \in DOMAIN counts : counts[i].value = v
    THEN pcts[CHOOSE i \in DOMAIN counts : counts[i].value = v]
    ELSE -1

\* C4 (as claimed): with both cohorts non-empty each cohort's percentage of
\* a value is 100 * rows of the cohort with the value / rows of the cohort,
\* and the retained cohort has a percentage for every value that occurs in
\* the churned cohort, 0% when no retained row has it.
C4_CohortPercentages ==
    (Computed /\ BothCohorts) =>
        /\ \A i \in DOMAIN chart.churned_counts :
              chart.churned_pct[i] =
                 Pct(CountOf(ChurnedCol, chart.churned_counts[i].value),
                     Len(cohorts.churned))
        /\ \A v \in Unique(ChurnedCol) \ {NaN} :
              PctFor(chart.retained_counts, chart.retained_pct, v) =
                 Pct(CountOf(RetainedCol, v), Len(cohorts.retained))

RECURSIVE SumSeq(_)
SumSeq(s) == IF s = <<>> THEN 0 ELSE Head(s) + SumSeq(Tail(s))

Abs(x) == IF x < 0 THEN 0 - x ELSE x

\* the percentages sum to 100 within half a unit of the last decimal kept
\* per category
SumsToHundred(pcts) ==
    2 * Abs(SumSeq(pcts) - 100 * Pow10(PercentDecimals)) <= Len(pcts)

\* C5 (as claimed): the percentages of each non-empty cohort sum to 100%
\* within rounding tolerance, whatever the column holds, missing values
\* included.
C5_PercentagesSum ==
    Computed =>
        /\ Len(cohorts.churned) > 0 => SumsToHundred(chart.churned_pct)
        /\ Len(cohorts.retained) > 0 => SumsToHundred(chart.retained_pct)

EmptyCohort ==
    /\ pc \in {"loop", "done", "failed"}
    /\ Len(cohorts.churned) = 0 \/ Len(cohorts.retained) = 0

\* C7 (as claimed): with an empty cohort the call fails in the percentage
\* computation of the first categorical column, shows no chart for it and
\* never completes normally.
C7_EmptyCohortFails ==
    EmptyCohort =>
        /\ pc # "done"
        /\ idx = 0
        /\ pc = "failed" => chart.outcome = "pct"

\* the cohort that has rows when the other has none
FullCohort == IF Len(cohorts.churned) = 0 THEN cohorts.retained ELSE cohorts.churned

\* the distinct non-missing values of the k-th listed column in that cohort
FullDistinct(k) == Cardinality(Unique(Col(FullCohort, columns[k])) \ {NaN})

\* C7 (amended): with an empty cohort the percentage computation raises
\* nothing and gives the empty cohort an empty series; the call fails at
\* the first listed column in which the other cohort has two or more
\* distinct non-missing values, in the bar call, with no chart shown for
\* that column; the columns before it are shown with at most the one bar of
\* the churned cohort, no bar of the retained cohort and no count label,
\* and the call completes normally when no column is such.
C7_EmptyCohortOutcome ==
    EmptyCohort =>
        /\ \A k \in 1..idx : FullDistinct(k) <= 1
        /\ Computed =>
              /\ Len(cohorts.churned) = 0 => chart.churned_pct = <<>>
              /\ Len(cohorts.retained) = 0 => chart.retained_pct = <<>>
              /\ chart.outcome \in {"shown", "bar"}
              /\ chart.outcome = "shown" =>
                    /\ Len(chart.bars1) = Len(chart.churned_pct)
                    /\ Len(chart.bars1) <= 1
                    /\ chart.bars2 = <<>>
                    /\ chart.labels = <<>>
        /\ pc = "failed" =>
              /\ chart.outcome = "bar"
              /\ chart.column = columns[idx + 1]
              /\ FullDistinct(idx + 1) >= 2
        /\ pc = "done" => idx = Len(columns)
        /\ (pc = "loop" /\ idx < Len(columns)) =>
              (ENABLED BarMismatch <=> FullDistinct(idx + 1) >= 2)

C7_Witness ==
    /\ pc = "failed"
    /\ idx = 1
    /\ Len(cohorts.churned) = 0
    /\ Len(cohorts.retained) = 3
    /\ chart.outcome = "bar"

\* C9 (as claimed): at every x position of a shown chart the tick label,
\* the churned bar, the retained bar and both count labels refer to one
\* category value: the bars' heights are that value's percentages in the
\* churned and in the retained cohort, the labels its counts.
C9_BarsAligned ==
    (Computed /\ BothCohorts /\ chart.outcome = "shown") =>
        \A i \in DOMAIN chart.ticks :
            LET v == chart.ticks[i]
            IN  /\ chart.bars1[i].x = i - 1
                /\ chart.bars1[i].height
                     = Pct(CountOf(ChurnedCol, v), Len(cohorts.churned))
                /\ \E j \in DOMAIN chart.bars2 : chart.bars2[j].x = i - 1
                /\ \A j \in DOMAIN chart.bars2 :
                      chart.bars2[j].x = i - 1 =>
                         /\ Len(cohorts.retained) > 0
                         /\ chart.bars2[j].height
                              = Pct(CountOf(RetainedCol, v), Len(cohorts.retained))
                /\ i \in DOMAIN chart.labels
                /\ chart.labels[i].churned = CountOf(ChurnedCol, v)
                /\ chart.labels[i].retained = CountOf(RetainedCol, v)

====
